---- MODULE Spec2Model ----
(***************************************************************************)
(* great_expectations: the SQL column-map expectation wrapper              *)
(* (dataset/sqlalchemy_dataset.py) and the partition-object helpers        *)
(* (dataset/util.py).                                                      *)
(*                                                                         *)
(* One column of one table is modelled.  The table is a bag of cell        *)
(* values: SQL gives the rows no order, so a LIMIT query may return any    *)
(* sub-bag of the matching rows.  Fractions (mostly, weights, bin edges)   *)
(* are exact rationals kept as integer numerators over a denominator.      *)
(***************************************************************************)
EXTENDS Integers, Sequences, FiniteSets, TLC

\* ---------------------------------------------------------------- bounds
MaxRows == 21
MaxWrites == 1
MaxBinsLen == 3
MaxWeightsLen == 2
MaxSampleLen == 3
MaxValue == 2
MaxNBins == 3
WeightDenom == 1000000

\* ------------------------------------------------------ program constants
unexpected_count_limit == 20
default_partial_unexpected_count == 20
\* np.allclose(x, 1): |x - 1| <= atol + rtol * 1 = 1e-8 + 1e-5 = TolNum / TolDen
TolNum == 1001
TolDen == 100000000

\* ------------------------------------------------------------------ cells
NULL == "NULL"
Vals == {"a", "b"}
Cells == Vals \cup {NULL}

Min(x, y) == IF x <= y THEN x ELSE y
Abs(x) == IF x >= 0 THEN x ELSE 0 - x

EmptyBag == [c \in Cells |-> 0]
BagSize(bag) == bag[NULL] + bag["a"] + bag["b"]

\* every bag of k rows taken from the rows of bag m
SubBags(m, k) ==
    { [c \in Cells |-> CASE c = "a" -> p[1] [] c = "b" -> p[2] [] OTHER -> k - p[1] - p[2]] :
        p \in { q \in (0..Min(k, m["a"])) \X (0..Min(k, m["b"])) :
                    k - q[1] - q[2] \in 0..m[NULL] } }

Tables == { [c \in Cells |-> CASE c = "a" -> p[1] [] c = "b" -> p[2] [] OTHER -> p[3]] :
              p \in { q \in (0..MaxRows) \X (0..MaxRows) \X (0..MaxRows) :
                          q[1] + q[2] + q[3] <= MaxRows } }

\* ------------------------------------------------------------ call inputs
MostlyNone == [isNone |-> TRUE, num |-> 0, den |-> 1]
Frac(n, d) == [isNone |-> FALSE, num |-> n, den |-> d]
Mostlys == {MostlyNone, Frac(1, 2), Frac(4, 5), Frac(1, 1), Frac(3, 2)}
MostlyInRange(m) == m.isNone \/ (0 <= m.num /\ m.num <= m.den)

RFNone == [kind |-> "None", result_format |-> "", has_count |-> FALSE,
           partial_unexpected_count |-> 0]
RFString == [kind |-> "str", result_format |-> "BASIC", has_count |-> FALSE,
             partial_unexpected_count |-> 0]
RFDict == [kind |-> "dict", result_format |-> "BASIC", has_count |-> FALSE,
           partial_unexpected_count |-> 0]
RFDictCount(n) == [kind |-> "dict", result_format |-> "BASIC", has_count |-> TRUE,
                   partial_unexpected_count |-> n]
ResultFormats == {RFNone, RFString, RFDict, RFDictCount(2)}

\* the (mostly, result_format) pairs a call is made with
Configs == (Mostlys \X {RFNone}) \cup ({MostlyNone} \X ResultFormats)

VARIABLES
    table,            \* the column's rows in the backend
    values_set, mostly, result_format,          \* the call's arguments
    pc,               \* position of the call
    queries,          \* the queries handed to engine.execute, in order
    null_count, element_count, nonnull_count,   \* inner_wrapper's locals
    test_results,     \* rows of the executed LIMIT query
    result,           \* the dict the wrapped function returns
    success_count,
    return_obj,       \* what the caller receives
    error,            \* the exception that left the call, if any
    writes, written_between,                    \* other clients of the backend
    data, bins, n_bins, partition_object, valid, ppc   \* util.py calls

cmvars == <<table, values_set, mostly, result_format, pc, queries, null_count,
            element_count, nonnull_count, test_results, result, success_count,
            return_obj, error, writes, written_between>>
pvars == <<data, bins, n_bins, partition_object, valid, ppc>>
vars == <<cmvars, pvars>>

\* ------------------------------------------------- sqlalchemy_dataset.py
NoResult == [returned |-> FALSE, success |-> FALSE, element_count |-> 0,
             missing_count |-> 0, unexpected_count |-> 0,
             partial_unexpected_list |-> EmptyBag]
NoPredicateResult == [unexpected_count |-> 0, partial_unexpected_list |-> EmptyBag]

\* select count() from table
count_query(t) == BagSize(t)

\* select count() from table where column != None  (renders as IS NOT NULL)
null_count_query(t) == t["a"] + t["b"]

\* variant: a NULL cell counts as not in the set
notin_nulls_pass(c, vs) == c \notin vs

\* column NOT IN (values_set): unknown, hence not selected, for a NULL cell
notin_(c, vs) == c # NULL /\ c \notin vs

\* select column from table where column not in values_set
test(t, vs) == [c \in Cells |-> IF notin_(c, vs) THEN t[c] ELSE 0]

\* select count() from table where column not in values_set
test_count(t, vs) == BagSize(test(t, vs))

\* query.limit(n): any n of the selected rows, all of them when fewer
limit(rows, n) == SubBags(rows, Min(n, BagSize(rows)))

\* variant: the default count replaces a count the caller configured
parse_result_format_overwrites(rf) ==
    [kind |-> "dict", result_format |-> rf.result_format, has_count |-> TRUE,
     partial_unexpected_count |-> default_partial_unexpected_count]

\* util.parse_result_format
parse_result_format(rf) ==
    IF rf.kind = "str"
    THEN [kind |-> "dict", result_format |-> rf.result_format, has_count |-> TRUE,
          partial_unexpected_count |-> default_partial_unexpected_count]
    ELSE IF ~rf.has_count
         THEN [rf EXCEPT !.has_count = TRUE,
                         !.partial_unexpected_count = default_partial_unexpected_count]
         ELSE rf

\* DataSet.default_expectation_args["result_format"]
default_expectation_args == RFString

\* lines 27-28 of inner_wrapper
resolve_result_format(rf) == IF rf.kind = "None" THEN default_expectation_args ELSE rf

\* DataSet._calc_map_expectation_success: the mostly policy
calc_map_expectation_success(sc, nn, m) ==
    IF m.isNone
    THEN nn - sc = 0
    ELSE IF nn = 0 THEN TRUE ELSE sc * m.den >= m.num * nn

\* DataSet._format_column_map_output: the results the formatter may build
format_column_map_output(rf, success, ec, nn, sc, unexpected_list) ==
    LET parsed == parse_result_format(rf)
    IN  { [returned |-> TRUE, success |-> success, element_count |-> ec,
           missing_count |-> ec - nn, unexpected_count |-> nn - sc,
           partial_unexpected_list |-> l] :
            l \in limit(unexpected_list, parsed.partial_unexpected_count) }

\* an entry of the query log: the query and how engine.execute ended
Ok(q) == [query |-> q, outcome |-> "ok"]
Raised(q) == [query |-> q, outcome |-> "raised"]

InCall == pc \in {"start", "null_counted", "counted", "sampled"}

\* the query the call executes next
NextQuery == CASE pc = "start" -> "null_count_query"
               [] pc = "null_counted" -> "count_query"
               [] pc = "counted" -> "test.limit"
               [] OTHER -> "test_count"

\* variant: the exception is caught and the query counts as having found nothing
engine_execute_swallowed(q) ==
    /\ pc' = CASE pc = "start" -> "null_counted"
               [] pc = "null_counted" -> "counted"
               [] pc = "counted" -> "sampled"
               [] OTHER -> "returned"
    /\ queries' = Append(queries, Raised(q))
    /\ result_format' = resolve_result_format(result_format)
    /\ return_obj' = IF pc = "sampled"
                     THEN [NoResult EXCEPT !.returned = TRUE, !.success = TRUE,
                                           !.element_count = element_count]
                     ELSE return_obj
    /\ UNCHANGED <<table, values_set, mostly, null_count, element_count, nonnull_count,
                   test_results, result, success_count, error, writes, written_between>>

\* engine.execute raises: nothing in inner_wrapper or the wrapped function
\* catches it, the call ends with the exception
engine_execute_raises(q) ==
    /\ pc' = "raised"
    /\ error' = "BackendError"
    /\ queries' = Append(queries, Raised(q))
    /\ result_format' = IF pc = "start" THEN resolve_result_format(result_format)
                        ELSE result_format
    /\ UNCHANGED <<table, values_set, mostly, null_count, element_count, nonnull_count,
                   test_results, result, success_count, return_obj, writes,
                   written_between>>

QueryFails ==
    /\ InCall
    /\ engine_execute_raises(NextQuery)
    /\ UNCHANGED pvars

\* inner_wrapper lines 27-34
ExecuteNullCountQuery ==
    /\ pc = "start"
    /\ result_format' = resolve_result_format(result_format)
    /\ null_count' = null_count_query(table)
    /\ queries' = Append(queries, Ok("null_count_query"))
    /\ pc' = "null_counted"
    /\ UNCHANGED <<table, values_set, mostly, element_count, nonnull_count, test_results,
                   result, success_count, return_obj, error, writes, written_between>>
    /\ UNCHANGED pvars

\* inner_wrapper lines 35-37
ExecuteCountQuery ==
    /\ pc = "null_counted"
    /\ element_count' = count_query(table)
    /\ nonnull_count' = count_query(table) - null_count
    /\ queries' = Append(queries, Ok("count_query"))
    /\ pc' = "counted"
    /\ UNCHANGED <<table, values_set, mostly, result_format, null_count, test_results,
                   result, success_count, return_obj, error, writes, written_between>>
    /\ UNCHANGED pvars

\* variant: the unlimited query is executed as well as the limited one
ExecuteTestThenTestLimit ==
    /\ pc = "counted"
    /\ test_results' \in limit(test(table, values_set), unexpected_count_limit)
    /\ queries' = Append(Append(queries, Ok("test")), Ok("test.limit"))
    /\ pc' = "sampled"
    /\ UNCHANGED <<table, values_set, mostly, result_format, null_count, element_count,
                   nonnull_count, result, success_count, return_obj, error, writes,
                   written_between>>
    /\ UNCHANGED pvars

\* inner_wrapper line 39 into expect_column_values_to_be_in_set lines 79-85
ExecuteTestLimit ==
    /\ pc = "counted"
    /\ test_results' \in limit(test(table, values_set), unexpected_count_limit)
    /\ queries' = Append(queries, Ok("test.limit"))
    /\ pc' = "sampled"
    /\ UNCHANGED <<table, values_set, mostly, result_format, null_count, element_count,
                   nonnull_count, result, success_count, return_obj, error, writes,
                   written_between>>
    /\ UNCHANGED pvars

\* expect_column_values_to_be_in_set lines 87-106, then inner_wrapper lines 41-53
ExecuteTestCount ==
    /\ pc = "sampled"
    /\ LET unexpected_count == test_count(table, values_set)
           sc == nonnull_count - unexpected_count
           success == calc_map_expectation_success(sc, nonnull_count, mostly)
       IN  /\ result' = [unexpected_count |-> unexpected_count,
                         partial_unexpected_list |-> test_results]
           /\ success_count' = sc
           /\ return_obj' \in format_column_map_output(result_format, success,
                                  element_count, nonnull_count, sc, test_results)
    /\ queries' = Append(queries, Ok("test_count"))
    /\ pc' = "returned"
    /\ UNCHANGED <<table, values_set, mostly, result_format, null_count, element_count,
                   nonnull_count, test_results, error, writes, written_between>>
    /\ UNCHANGED pvars

\* another client of the backend inserts or deletes a row while the call runs
TableWrite ==
    /\ InCall
    /\ writes < MaxWrites
    /\ \E c \in Cells :
         \/ /\ BagSize(table) < MaxRows
            /\ table' = [table EXCEPT ![c] = @ + 1]
         \/ /\ table[c] > 0
            /\ table' = [table EXCEPT ![c] = @ - 1]
    /\ writes' = writes + 1
    /\ written_between' = (written_between \/ pc = "sampled")
    /\ UNCHANGED <<values_set, mostly, result_format, pc, queries, null_count,
                   element_count, nonnull_count, test_results, result, success_count,
                   return_obj, error>>
    /\ UNCHANGED pvars

NoPartitionCall ==
    /\ data = <<>>
    /\ bins = "auto"
    /\ n_bins = 10
    /\ partition_object = 0
    /\ valid = 0
    /\ ppc = "idle"

CallInit ==
    /\ queries = <<>>
    /\ null_count = 0
    /\ element_count = 0
    /\ nonnull_count = 0
    /\ test_results = EmptyBag
    /\ result = NoPredicateResult
    /\ success_count = 0
    /\ return_obj = NoResult
    /\ error = "none"
    /\ writes = 0
    /\ written_between = FALSE

Init ==
    /\ table \in Tables
    /\ values_set \in SUBSET Vals
    /\ \E cfg \in Configs : mostly = cfg[1] /\ result_format = cfg[2]
    /\ pc = "start"
    /\ CallInit
    /\ NoPartitionCall

Next ==
    \/ ExecuteNullCountQuery
    \/ ExecuteCountQuery
    \/ ExecuteTestLimit
    \/ ExecuteTestCount
    \/ QueryFails

Spec == Init /\ [][Next]_vars

InitConcurrent ==
    /\ table \in Tables
    /\ values_set \in SUBSET Vals
    /\ mostly = MostlyNone
    /\ result_format = RFNone
    /\ pc = "start"
    /\ CallInit
    /\ NoPartitionCall

NextConcurrent ==
    \/ ExecuteNullCountQuery
    \/ ExecuteCountQuery
    \/ ExecuteTestLimit
    \/ ExecuteTestCount
    \/ QueryFails
    \/ TableWrite

SpecConcurrent == InitConcurrent /\ [][NextConcurrent]_vars

\* ---------------------------------------------------------------- util.py
RECURSIVE SumSeq(_)
SumSeq(s) == IF s = <<>> THEN 0 ELSE s[1] + SumSeq(Tail(s))

SeqsUpTo(S, n) == UNION { [1..k -> S] : k \in 0..n }

MinOf(s) == CHOOSE x \in { s[i] : i \in DOMAIN s } : \A j \in DOMAIN s : x <= s[j]
MaxOf(s) == CHOOSE x \in { s[i] : i \in DOMAIN s } : \A j \in DOMAIN s : x >= s[j]

\* A partition object: a dict that may hold "values", "bins" and "weights", or None.
\* Weights are numerators over denom; bins are numerators over one positive scale.
NonePartition == [isNone |-> TRUE, has_values |-> FALSE, has_bins |-> FALSE,
                  has_weights |-> FALSE, values |-> <<>>, bins |-> <<>>,
                  weights |-> <<>>, denom |-> 1]

\* np.allclose(np.sum(weights), 1)
allclose_one(sum, denom) == Abs(sum - denom) <= (TolNum * denom) \div TolDen

\* np.all(np.diff(bins) > 0)
all_diff_positive(b) == \A i \in 1..(Len(b) - 1) : b[i + 1] - b[i] > 0

is_valid_categorical_partition_object(p) ==
    IF p.isNone \/ ~p.has_weights \/ ~p.has_values
    THEN FALSE
    ELSE /\ Len(p.values) = Len(p.weights)
         /\ allclose_one(SumSeq(p.weights), p.denom)

\* variant: equal neighbouring bin edges are accepted
is_valid_continuous_nondecreasing(p) ==
    IF p.isNone \/ ~p.has_weights \/ ~p.has_bins
    THEN FALSE
    ELSE /\ Len(p.bins) = Len(p.weights) + 1
         /\ \A i \in 1..(Len(p.bins) - 1) : p.bins[i + 1] - p.bins[i] >= 0
         /\ allclose_one(SumSeq(p.weights), p.denom)

is_valid_continuous_partition_object(p) ==
    IF p.isNone \/ ~p.has_weights \/ ~p.has_bins
    THEN FALSE
    ELSE /\ Len(p.bins) = Len(p.weights) + 1
         /\ all_diff_positive(p.bins)
         /\ allclose_one(SumSeq(p.weights), p.denom)

is_valid_partition_object(p) ==
    is_valid_continuous_partition_object(p) \/ is_valid_categorical_partition_object(p)

\* np.linspace(start, stop, num = n + 1), every edge multiplied by n
linspace(start, stop, n) == [i \in 1..(n + 1) |-> n * start + (i - 1) * (stop - start)]

\* np.histogram(d, edges)[0] for edges given as an array, d multiplied by scale:
\* bin i is [edges[i], edges[i+1]), the last bin is closed on the right
histogram(d, edges, scale) ==
    LET n == Len(edges) - 1
    IN  [i \in 1..n |->
            Cardinality({ k \in DOMAIN d :
                /\ edges[i] <= d[k] * scale
                /\ IF i = n THEN d[k] * scale <= edges[i + 1]
                            ELSE d[k] * scale < edges[i + 1] })]

\* continuous_partition_data(d, b, n) for b = 'uniform' or an unknown name
continuous_partition_data(d, b, n) ==
    IF b # "uniform" \/ d = <<>>
    THEN [raised |-> "ValueError", partition |-> NonePartition]
    ELSE LET edges == linspace(MinOf(d), MaxOf(d), n)
         IN  IF \E i \in 1..n : edges[i] > edges[i + 1]
             THEN [raised |-> "ValueError", partition |-> NonePartition]
             ELSE [raised |-> "none",
                   partition |-> [isNone |-> FALSE, has_values |-> FALSE,
                                  has_bins |-> TRUE, has_weights |-> TRUE,
                                  values |-> <<>>, bins |-> edges,
                                  weights |-> histogram(d, edges, n),
                                  denom |-> Len(d)]]

WeightNums == {0, 499990, 500000, 500011, WeightDenom}

\* the keys a dict holds and their contents; a key that is absent has no content
PartitionContents ==
    { c \in BOOLEAN \X BOOLEAN \X BOOLEAN \X {<<>>, <<"x">>, <<"x", "y">>}
            \X SeqsUpTo(0..MaxValue, MaxBinsLen) \X SeqsUpTo(WeightNums, MaxWeightsLen) :
        /\ c[1] \/ c[4] = <<>>
        /\ c[2] \/ c[5] = <<>>
        /\ c[3] \/ c[6] = <<>> }

\* the partition objects a caller hands to the validators
PartitionObjects ==
    {NonePartition} \cup
    { [isNone |-> FALSE, has_values |-> c[1], has_bins |-> c[2], has_weights |-> c[3],
       values |-> c[4], bins |-> c[5], weights |-> c[6], denom |-> WeightDenom] :
        c \in PartitionContents }

BuildPartition ==
    /\ ppc = "data"
    /\ LET r == continuous_partition_data(data, bins, n_bins)
       IN  /\ partition_object' = r.partition
           /\ ppc' = IF r.raised = "none" THEN "object" ELSE "raised"
    /\ UNCHANGED <<data, bins, n_bins, valid>>
    /\ UNCHANGED cmvars

ValidatePartition ==
    /\ ppc = "object"
    /\ valid' = [categorical |-> is_valid_categorical_partition_object(partition_object),
                 continuous |-> is_valid_continuous_partition_object(partition_object),
                 any |-> is_valid_partition_object(partition_object)]
    /\ ppc' = "validated"
    /\ UNCHANGED <<data, bins, n_bins, partition_object>>
    /\ UNCHANGED cmvars

NoValidation == [categorical |-> FALSE, continuous |-> FALSE, any |-> FALSE]

InitPartition ==
    /\ table = EmptyBag
    /\ values_set = {}
    /\ mostly = MostlyNone
    /\ result_format = RFNone
    /\ pc = "idle"
    /\ CallInit
    /\ valid = NoValidation
    /\ \/ /\ ppc = "object"
          /\ partition_object \in PartitionObjects
          /\ data = <<>>
          /\ bins = "none"
          /\ n_bins = 0
       \/ /\ ppc = "data"
          /\ partition_object = NonePartition
          /\ data \in SeqsUpTo(0..MaxValue, MaxSampleLen)
          /\ bins \in {"uniform", "bogus"}
          /\ n_bins \in 1..MaxNBins

NextPartition ==
    \/ BuildPartition
    \/ ValidatePartition

SpecPartition == InitPartition /\ [][NextPartition]_vars

\* ------------------------------------------------------------- properties
NullRows(t) == t[NULL]
NonNullRows(t) == t["a"] + t["b"]
TrueUnexpected(t, vs) ==
    (IF "a" \in vs THEN 0 ELSE t["a"]) + (IF "b" \in vs THEN 0 ELSE t["b"])

\* C1: a finished evaluation has element_count = all rows, null_count = the rows
\* whose cell is null, nonnull_count = element_count - null_count = the rows whose
\* cell is not null, and success_count = nonnull_count - unexpected_count.
C1_CountsAreTrueCounts ==
    pc = "returned" =>
        /\ element_count = BagSize(table)
        /\ null_count = NullRows(table)
        /\ nonnull_count = element_count - null_count
        /\ nonnull_count = NonNullRows(table)
        /\ success_count = nonnull_count - result.unexpected_count

\* the mostly policy on the column's true counts
MostlyPolicy(nn, u, m) ==
    IF m.isNone THEN u = 0
    ELSE IF nn = 0 THEN TRUE ELSE (nn - u) * m.den >= m.num * nn

\* C2: for mostly unset or in [0,1], the success flag of a finished evaluation is
\* the mostly policy applied to the number of non-null rows and the number of
\* non-null rows outside values_set (success when there is no non-null row).
C2_SuccessFollowsMostly ==
    (pc = "returned" /\ MostlyInRange(mostly)) =>
        return_obj.success =
            MostlyPolicy(NonNullRows(table), TrueUnexpected(table, values_set), mostly)

\* C3: a finished evaluation worked with
\* 0 <= unexpected_count <= nonnull_count <= element_count.
C3_CountsOrdered ==
    pc = "returned" =>
        /\ 0 <= result.unexpected_count
        /\ result.unexpected_count <= nonnull_count
        /\ nonnull_count <= element_count
        /\ success_count >= 0

\* C4: a call whose mostly lies outside [0,1] executes no query and can only end
\* in ConfigurationError.
C4_NoQueryOnBadMostly ==
    ~MostlyInRange(mostly) =>
        /\ queries = <<>>
        /\ pc \in {"start", "raised"}
        /\ pc = "raised" => error = "ConfigurationError"

ConfiguredLimit(rf) ==
    IF rf.kind = "dict" /\ rf.has_count THEN rf.partial_unexpected_count ELSE 20

SomeQueryRaised == \E i \in DOMAIN queries : queries[i].outcome = "raised"

\* C6: once a backend query has raised, the call has ended in BackendError: the
\* failed query is the last one executed, no query was executed twice, and no
\* result was returned.
C6_BackendErrorPropagates ==
    SomeQueryRaised =>
        /\ pc = "raised"
        /\ error = "BackendError"
        /\ return_obj = NoResult
        /\ queries[Len(queries)].outcome = "raised"
        /\ \A i, j \in DOMAIN queries :
              (i # j => queries[i].query # queries[j].query)
              /\ (i < Len(queries) => queries[i].outcome = "ok")

\* the unexpected-count query raised after the other three had answered
C6_Witness ==
    /\ pc = "raised"
    /\ Len(queries) = 4
    /\ queries[4] = Raised("test_count")
    /\ return_obj = NoResult

UnitSumWeights(p) ==
    LET slack == (TolNum * p.denom) \div TolDen
    IN  \E d \in (0 - slack)..slack : SumSeq(p.weights) = p.denom + d

CategoricalRejected(p) ==
    \/ p.isNone
    \/ ~p.has_values
    \/ ~p.has_weights
    \/ Len(p.values) # Len(p.weights)
    \/ ~UnitSumWeights(p)

ContinuousRejected(p) ==
    \/ p.isNone
    \/ ~p.has_bins
    \/ ~p.has_weights
    \/ Len(p.bins) # Len(p.weights) + 1
    \/ \E i \in DOMAIN p.bins : i + 1 \in DOMAIN p.bins /\ p.bins[i] >= p.bins[i + 1]
    \/ ~UnitSumWeights(p)

\* C7: each validator answers false exactly on the objects one of its rejection
\* conditions covers (a key missing, lengths that do not fit, bins not strictly
\* increasing, weights not summing to 1 within tolerance) and true otherwise;
\* is_valid_partition_object is true iff one of the two is.
C7_ValidatorsRejectExactly ==
    ppc = "validated" =>
        /\ valid.categorical = ~CategoricalRejected(partition_object)
        /\ valid.continuous = ~ContinuousRejected(partition_object)
        /\ valid.any = (valid.categorical \/ valid.continuous)

\* a caller's object with a repeated bin edge and fitting weights was rejected
C7_Witness ==
    /\ ppc = "validated"
    /\ data = <<>>
    /\ partition_object.has_bins /\ partition_object.has_weights
    /\ partition_object.bins = <<0, 1, 1>>
    /\ partition_object.weights = <<500000, 500000>>
    /\ ~valid.continuous
    /\ ~valid.any

\* C8: a partition built in uniform mode from a non-empty sample with n bins has
\* n+1 strictly increasing bin edges and n weights summing to 1, and the
\* continuous validator accepts it.
C8_UniformPartitionIsValid ==
    (ppc \in {"object", "validated", "raised"} /\ bins = "uniform" /\ data # <<>>) =>
        /\ ppc # "raised"
        /\ Len(partition_object.bins) = n_bins + 1
        /\ \A i \in 1..n_bins : partition_object.bins[i] < partition_object.bins[i + 1]
        /\ Len(partition_object.weights) = n_bins
        /\ SumSeq(partition_object.weights) = partition_object.denom
        /\ ppc = "validated" => valid.continuous

\* C9: a call executes at most three queries.
C9_AtMostThreeQueries == Len(queries) <= 3

QueryOrder == <<"null_count_query", "count_query", "test.limit", "test_count">>

\* C9 (amended): a call executes at most four queries, one after another: the
\* null-count query, the row-count query, the limited unexpected-value query and
\* the unexpected-count query, each at most once and in this order.
C9_AtMostFourQueriesInOrder ==
    /\ Len(queries) <= 4
    /\ \A i \in DOMAIN queries : queries[i].query = QueryOrder[i]

\* a call that returned after its fourth query
C9_Witness ==
    /\ pc = "returned"
    /\ Len(queries) = 4
    /\ \A i \in DOMAIN queries : queries[i].outcome = "ok"

\* C10: when no other client wrote to the table between the limited query and the
\* count query, the returned list has min(unexpected_count, 20) elements, each a
\* non-null cell of the column outside values_set.
C10_ListAgreesWithCount ==
    (pc = "returned" /\ ~written_between) =>
        /\ BagSize(result.partial_unexpected_list)
              = Min(result.unexpected_count, unexpected_count_limit)
        /\ \A c \in Cells :
              result.partial_unexpected_list[c] > 0 =>
                  /\ c # NULL
                  /\ c \notin values_set
                  /\ result.partial_unexpected_list[c] <= table[c]

\* a write between the two queries left a list that disagrees with the count
C10_Witness ==
    /\ pc = "returned"
    /\ written_between
    /\ BagSize(result.partial_unexpected_list)
          # Min(result.unexpected_count, unexpected_count_limit)

====
